---- MODULE Spec2Model ----
(***************************************************************************)
(* Model of MLAnomalyDetector (modules/ml_detection/anomaly_detector.py).  *)
(*                                                                         *)
(* Python values are tagged records [t, n, s]: t is the runtime type       *)
(* ("num" for int/float, "str", "none" for None, "list" for an unhashable  *)
(* list, "absent" for a key that is not in the response dict).  Numbers    *)
(* are integers; every comparison the code makes on means and standard     *)
(* deviations is carried out exactly on integer numerators/denominators.   *)
(* A score is kept as the exact real sqrt(sqn / sqd).                      *)
(***************************************************************************)
EXTENDS Integers, Sequences, FiniteSets, TLC

VARIABLES
    min_samples,        \* self.min_samples
    anomaly_threshold,  \* self.anomaly_threshold, in hundredths
    baseline_data,      \* self.baseline_data: feature name -> list of values
    op,                 \* the public operation that just ran, "idle" between calls
    arg,                \* its argument
    result              \* [raised, value]: what it returned, or that it raised

vars == <<min_samples, anomaly_threshold, baseline_data, op, arg, result>>

------------------------------------------------------------------------------
(* Bounds of the model *)

\* longest sequence one baseline feature is trained to
MaxBaselineLen == 2
\* responses in one train_baseline call
MaxBatch == 2
\* samples in one detect_timing_attacks call
MaxTiming == 2
\* longest baseline sequence of arbitrary values handed to _is_anomalous
MaxShortLen == 3
\* occurrences of the rarer value in a long two-valued baseline sequence
MaxRare == 2
\* largest denominator of the scores handed to _calculate_severity
MaxDen == 20
\* vulnerabilities in one cluster_vulnerabilities call
MaxVulns == 3
\* technologies in one predict_attack_vectors call
MaxTech == 3
\* samples in one detect_timing_attacks call made on its own
MaxTimingLen == 4
\* responses in a train_baseline call that runs beside a detect_anomalies call
MaxRaceBatch == 1

------------------------------------------------------------------------------
(* Python values *)

Num(k) == [t |-> "num", n |-> k, s |-> ""]
Str(x) == [t |-> "str", n |-> 0, s |-> x]
NoneV == [t |-> "none", n |-> 0, s |-> ""]
ListV == [t |-> "list", n |-> 0, s |-> ""]
Absent == [t |-> "absent", n |-> 0, s |-> ""]

\* isinstance(value, (int, float))
IsNumeric(v) == v.t = "num"
\* isinstance(value, str)
IsString(v) == v.t = "str"
\* hash(v) succeeds: a list is unhashable
Hashable(v) == v.t # "list"

\* response bodies: a text (sequence of characters), None, or no 'content' key
Text(cs) == [t |-> "str", chars |-> cs]
NoBody == [t |-> "absent", chars |-> <<>>]
NoneBody == [t |-> "none", chars |-> <<>>]

\* str(response['content'])
PyStr(c) == IF c.t = "none" THEN <<"N", "o", "n", "e">> ELSE c.chars

\* header fields: a mapping (sequence of [k, v] with distinct keys), a list of
\* header names, None, or no 'headers' key
HMap(kvs) == [t |-> "map", items |-> kvs]
HList(ks) == [t |-> "list", items |-> ks]
HNone == [t |-> "none", items |-> <<>>]
HAbsent == [t |-> "absent", items |-> <<>>]

\* the key of entry e of a header container (a list holds bare names)
HKey(h, i) == IF h.t = "map" THEN h.items[i].k ELSE h.items[i]

\* 'Content-Type' in response['headers']
HasContentType(h) == \E i \in 1..Len(h.items) : HKey(h, i) = "Content-Type"

------------------------------------------------------------------------------
(* _calculate_entropy and _detect_error_patterns *)

UpperCase == <<"A", "B", "C", "D", "E", "F", "G", "H", "I", "J", "K", "L", "M",
               "N", "O", "P", "Q", "R", "S", "T", "U", "V", "W", "X", "Y", "Z">>
LowerCase == <<"a", "b", "c", "d", "e", "f", "g", "h", "i", "j", "k", "l", "m",
               "n", "o", "p", "q", "r", "s", "t", "u", "v", "w", "x", "y", "z">>

\* str.lower() on one character
LowerChar(c) ==
    IF \E i \in 1..26 : UpperCase[i] = c
    THEN LowerCase[CHOOSE i \in 1..26 : UpperCase[i] = c]
    ELSE c

\* content.lower()
Lower(cs) == [i \in 1..Len(cs) |-> LowerChar(cs[i])]

error_keywords == <<
    <<"e","x","c","e","p","t","i","o","n">>,
    <<"e","r","r","o","r">>,
    <<"w","a","r","n","i","n","g">>,
    <<"f","a","t","a","l">>,
    <<"s","t","a","c","k"," ","t","r","a","c","e">>,
    <<"s","q","l"," ","e","r","r","o","r">>,
    <<"s","y","n","t","a","x"," ","e","r","r","o","r">>,
    <<"u","n","d","e","f","i","n","e","d">>,
    <<"n","u","l","l"," ","p","o","i","n","t","e","r">>,
    <<"a","c","c","e","s","s"," ","d","e","n","i","e","d">>,
    <<"f","o","r","b","i","d","d","e","n">>,
    <<"u","n","a","u","t","h","o","r","i","z","e","d">>
>>

\* keyword in content_lower
Contains(cs, kw) ==
    \E i \in 0..(Len(cs) - Len(kw)) :
        \A j \in 1..Len(kw) : cs[i + j] = kw[j]

\* _detect_error_patterns(content): each keyword counts at most once
_detect_error_patterns(cs) ==
    Cardinality({k \in 1..Len(error_keywords) : Contains(Lower(cs), error_keywords[k])})

\* 100 * math.log2(k), rounded, for the body lengths of the model
Log2Centi == <<0, 100, 158, 200, 232, 258, 281, 300, 317, 332, 346, 358, 370, 381, 391, 400>>

RECURSIVE SumOver(_, _)
\* the sum of f[x] over the finite set dom
SumOver(f, dom) ==
    IF dom = {} THEN 0
    ELSE LET x == CHOOSE y \in dom : TRUE
         IN f[x] + SumOver(f, dom \ {x})

\* _calculate_entropy(content) in hundredths of a bit:
\* -sum p*log2(p) over the distinct characters, p = count / len(content)
_calculate_entropy(cs) ==
    IF Len(cs) = 0 THEN 0
    ELSE LET chars == {cs[i] : i \in 1..Len(cs)}
             count == [c \in chars |-> Cardinality({i \in 1..Len(cs) : cs[i] = c})]
             term == [c \in chars |->
                        count[c] * (Log2Centi[Len(cs)] - Log2Centi[count[c]])]
         IN SumOver(term, chars) \div Len(cs)

------------------------------------------------------------------------------
(* _extract_features *)

\* a response is [isdict, response_time, content, status_code, headers,
\* redirect_count]; isdict = FALSE is a response that is not a dict (None)

Feat(name, v) == [name |-> name, value |-> v]

\* the membership tests and subscripts of _extract_features raise TypeError when
\* the response is None, when len() is taken of a None 'headers', and when a
\* list 'headers' that holds 'Content-Type' is subscripted with it
ExtractRaises(response) ==
    \/ ~response.isdict
    \/ response.headers.t = "none"
    \/ response.headers.t = "list" /\ HasContentType(response.headers)

\* _extract_features falling back on defaults: response.get('response_time', 0),
\* and the first header when no key is exactly 'Content-Type'
_extract_features_Defaults(response) ==
    LET body == PyStr(response.content)
        hasBody == response.content.t # "absent"
        h == response.headers
    IN  (IF response.response_time.t # "absent"
         THEN <<Feat("response_time", response.response_time)>>
         ELSE <<Feat("response_time", Num(0))>>)
     \o (IF hasBody THEN <<Feat("response_size", Num(Len(body)))>> ELSE <<>>)
     \o (IF response.status_code.t # "absent"
         THEN <<Feat("status_code", response.status_code)>> ELSE <<>>)
     \o (IF h.t # "absent" THEN <<Feat("header_count", Num(Len(h.items)))>> ELSE <<>>)
     \o (IF h.t = "map" /\ HasContentType(h)
         THEN <<Feat("content_type",
                     h.items[CHOOSE i \in 1..Len(h.items) : HKey(h, i) = "Content-Type"].v)>>
         ELSE IF h.t = "map" /\ Len(h.items) > 0
         THEN <<Feat("content_type", h.items[1].v)>>
         ELSE <<>>)
     \o (IF hasBody THEN <<Feat("content_entropy", Num(_calculate_entropy(body)))>> ELSE <<>>)
     \o (IF hasBody THEN <<Feat("error_pattern", Num(_detect_error_patterns(body)))>> ELSE <<>>)
     \o (IF response.redirect_count.t # "absent"
         THEN <<Feat("redirect_count", response.redirect_count)>> ELSE <<>>)

\* the FeatureSet, in the insertion order of the dict the code builds
_extract_features(response) ==
    LET body == PyStr(response.content)
        hasBody == response.content.t # "absent"
        h == response.headers
    IN  (IF response.response_time.t # "absent"
         THEN <<Feat("response_time", response.response_time)>> ELSE <<>>)
     \o (IF hasBody THEN <<Feat("response_size", Num(Len(body)))>> ELSE <<>>)
     \o (IF response.status_code.t # "absent"
         THEN <<Feat("status_code", response.status_code)>> ELSE <<>>)
     \o (IF h.t # "absent" THEN <<Feat("header_count", Num(Len(h.items)))>> ELSE <<>>)
     \o (IF h.t = "map" /\ HasContentType(h)
         THEN <<Feat("content_type",
                     h.items[CHOOSE i \in 1..Len(h.items) : HKey(h, i) = "Content-Type"].v)>>
         ELSE <<>>)
     \o (IF hasBody THEN <<Feat("content_entropy", Num(_calculate_entropy(body)))>> ELSE <<>>)
     \o (IF hasBody THEN <<Feat("error_pattern", Num(_detect_error_patterns(body)))>> ELSE <<>>)
     \o (IF response.redirect_count.t # "absent"
         THEN <<Feat("redirect_count", response.redirect_count)>> ELSE <<>>)

------------------------------------------------------------------------------
(* statistics.mean / statistics.stdev, exactly *)

RECURSIVE SumSeq(_)
SumSeq(xs) == IF xs = <<>> THEN 0 ELSE Head(xs).n + SumSeq(Tail(xs))

RECURSIVE SumSqSeq(_)
SumSqSeq(xs) == IF xs = <<>> THEN 0 ELSE Head(xs).n * Head(xs).n + SumSqSeq(Tail(xs))

\* statistics.mean and statistics.stdev raise TypeError on a value that is no number
AllNumeric(xs) == \A i \in 1..Len(xs) : IsNumeric(xs[i])

\* n * (n - 1) * variance = n * sum(x^2) - (sum x)^2, the numerator the sample
\* variance of xs has over the denominator n * (n - 1)
VarNum(xs) == Len(xs) * SumSqSeq(xs) - SumSeq(xs) * SumSeq(xs)

\* stdev = statistics.stdev(baseline) if len(baseline) > 1 else 0; stdev == 0
StdevIsZero(xs) == IF Len(xs) > 1 THEN VarNum(xs) = 0 ELSE TRUE

------------------------------------------------------------------------------
(* scores: the real number sqrt(sqn / sqd), sqd > 0 *)

RECURSIVE GCD(_, _)
GCD(a, b) == IF b = 0 THEN a ELSE GCD(b, a % b)

\* sqrt(n / d) with the fraction in lowest terms
SqrtOf(n, d) == [sqn |-> n \div GCD(n, d), sqd |-> d \div GCD(n, d)]

ScoreZero == [sqn |-> 0, sqd |-> 1]
ScoreOne == [sqn |-> 1, sqd |-> 1]
\* the score p / q, for p >= 0 and q > 0
ScoreRatio(p, q) == SqrtOf(p * p, q * q)

\* score >= p / q, score = p / q, score > p / q   (p >= 0, q > 0)
ScoreGE(sc, p, q) == sc.sqn * q * q >= p * p * sc.sqd
ScoreEQ(sc, p, q) == sc.sqn * q * q = p * p * sc.sqd
ScoreGT(sc, p, q) == sc.sqn * q * q > p * p * sc.sqd

\* what _is_anomalous and its helpers return: the tuple (is_anomalous,
\* anomaly_score), or an exception
Verdict(a, sc) == [raised |-> FALSE, is_anomalous |-> a, score |-> sc]
NotAnomalous == Verdict(FALSE, ScoreZero)
Raised == [raised |-> TRUE, is_anomalous |-> FALSE, score |-> ScoreZero]

------------------------------------------------------------------------------
(* _detect_numeric_anomaly *)

\* z_score^2 = zn / zd where z_score = abs((value - mean) / stdev):
\* (n*value - sum)^2 * (n - 1) over n * VarNum
ZSqNum(value, baseline) ==
    LET d == Len(baseline) * value.n - SumSeq(baseline)
    IN d * d * (Len(baseline) - 1)
ZSqDen(baseline) == Len(baseline) * VarNum(baseline)

\* _detect_numeric_anomaly with z_score >= 3 as its test
_detect_numeric_anomaly_AtLeast3(value, baseline) ==
    IF ~AllNumeric(baseline) THEN NotAnomalous
    ELSE IF StdevIsZero(baseline) THEN NotAnomalous
    ELSE LET zn == ZSqNum(value, baseline)
             zd == ZSqDen(baseline)
         IN Verdict(zn >= 9 * zd,
                    IF zn >= 100 * zd THEN ScoreOne ELSE SqrtOf(zn, 100 * zd))

\* _detect_numeric_anomaly reporting any departure from a constant baseline
_detect_numeric_anomaly_ZeroStdevFlags(value, baseline) ==
    IF ~AllNumeric(baseline) THEN NotAnomalous
    ELSE IF StdevIsZero(baseline)
         THEN IF Len(baseline) * value.n = SumSeq(baseline) THEN NotAnomalous
              ELSE Verdict(TRUE, ScoreOne)
    ELSE LET zn == ZSqNum(value, baseline)
             zd == ZSqDen(baseline)
         IN Verdict(zn > 9 * zd,
                    IF zn >= 100 * zd THEN ScoreOne ELSE SqrtOf(zn, 100 * zd))

\* _detect_numeric_anomaly with the configured threshold wired in:
\* is_anomalous = anomaly_score >= self.anomaly_threshold
_detect_numeric_anomaly_UsesThreshold(value, baseline) ==
    IF ~AllNumeric(baseline) THEN NotAnomalous
    ELSE IF StdevIsZero(baseline) THEN NotAnomalous
    ELSE LET zn == ZSqNum(value, baseline)
             zd == ZSqDen(baseline)
             sc == IF zn >= 100 * zd THEN ScoreOne ELSE SqrtOf(zn, 100 * zd)
         IN Verdict(ScoreGE(sc, anomaly_threshold, 100), sc)

\* _detect_numeric_anomaly normalising with z_score / 100
_detect_numeric_anomaly_Per100(value, baseline) ==
    IF ~AllNumeric(baseline) THEN NotAnomalous
    ELSE IF StdevIsZero(baseline) THEN NotAnomalous
    ELSE LET zn == ZSqNum(value, baseline)
             zd == ZSqDen(baseline)
         IN Verdict(zn > 9 * zd,
                    IF zn >= 10000 * zd THEN ScoreOne ELSE SqrtOf(zn, 10000 * zd))

_detect_numeric_anomaly(value, baseline) ==
    IF ~AllNumeric(baseline) THEN NotAnomalous       \* except Exception
    ELSE IF StdevIsZero(baseline) THEN NotAnomalous
    ELSE LET zn == ZSqNum(value, baseline)
             zd == ZSqDen(baseline)
         IN Verdict(zn > 9 * zd,                      \* z_score > 3
                    IF zn >= 100 * zd THEN ScoreOne   \* min(z_score / 10, 1.0)
                    ELSE SqrtOf(zn, 100 * zd))

------------------------------------------------------------------------------
(* _detect_categorical_anomaly *)

\* value_counts.get(value, 0)
CountOf(value, baseline) ==
    Cardinality({i \in 1..Len(baseline) : baseline[i] = value})

\* _detect_categorical_anomaly with value_frequency itself as the score
_detect_categorical_anomaly_FrequencyAsScore(value, baseline) ==
    IF \E i \in 1..Len(baseline) : ~Hashable(baseline[i])
    THEN Raised
    ELSE LET c == CountOf(value, baseline)
             total_count == Len(baseline)
         IN IF 10 * c < total_count
            THEN Verdict(TRUE, ScoreRatio(c, total_count))
            ELSE Verdict(FALSE, ScoreZero)

\* _detect_categorical_anomaly with value_frequency <= 0.1 as its test
_detect_categorical_anomaly_AtMost(value, baseline) ==
    IF \E i \in 1..Len(baseline) : ~Hashable(baseline[i])
    THEN Raised
    ELSE LET c == CountOf(value, baseline)
             total_count == Len(baseline)
         IN IF 10 * c <= total_count
            THEN Verdict(TRUE, ScoreRatio(total_count - c, total_count))
            ELSE Verdict(FALSE, ScoreZero)

_detect_categorical_anomaly(value, baseline) ==
    IF \E i \in 1..Len(baseline) : ~Hashable(baseline[i])
    THEN Raised                                       \* value_counts[v]: unhashable
    ELSE LET c == CountOf(value, baseline)
             total_count == Len(baseline)
         IN IF 10 * c < total_count                   \* value_frequency < 0.1
            THEN Verdict(TRUE, ScoreRatio(total_count - c, total_count))
            ELSE Verdict(FALSE, ScoreZero)

------------------------------------------------------------------------------
(* _is_anomalous *)

\* _is_anomalous asking for more than min_samples values
_is_anomalous_OffByOne(ms, value, baseline_values) ==
    IF Len(baseline_values) <= ms THEN NotAnomalous
    ELSE IF IsNumeric(value) THEN _detect_numeric_anomaly(value, baseline_values)
    ELSE IF IsString(value) THEN _detect_categorical_anomaly(value, baseline_values)
    ELSE NotAnomalous

\* _is_anomalous choosing the rule by the type of the baseline's first entry:
\* a string against numbers fails inside the numeric rule's try, a number
\* against strings is counted
_is_anomalous_ByBaselineType(ms, value, baseline_values) ==
    IF Len(baseline_values) < ms THEN NotAnomalous
    ELSE IF IsNumeric(Head(baseline_values))
    THEN IF IsNumeric(value) THEN _detect_numeric_anomaly(value, baseline_values)
         ELSE NotAnomalous
    ELSE IF IsString(Head(baseline_values))
    THEN _detect_categorical_anomaly(value, baseline_values)
    ELSE NotAnomalous

_is_anomalous(ms, value, baseline_values) ==
    IF Len(baseline_values) < ms THEN NotAnomalous
    ELSE IF IsNumeric(value) THEN _detect_numeric_anomaly(value, baseline_values)
    ELSE IF IsString(value) THEN _detect_categorical_anomaly(value, baseline_values)
    ELSE NotAnomalous

------------------------------------------------------------------------------
(* _calculate_severity *)

\* _calculate_severity with > for >=
_calculate_severity_Strict(anomaly_score) ==
    IF ScoreGT(anomaly_score, 4, 5) THEN "high"
    ELSE IF ScoreGT(anomaly_score, 1, 2) THEN "medium"
    ELSE "low"

\* _calculate_severity with a fourth label for the top scores
_calculate_severity_Critical(anomaly_score) ==
    IF ScoreGE(anomaly_score, 19, 20) THEN "critical"
    ELSE IF ScoreGE(anomaly_score, 4, 5) THEN "high"
    ELSE IF ScoreGE(anomaly_score, 1, 2) THEN "medium"
    ELSE "low"

_calculate_severity(anomaly_score) ==
    IF ScoreGE(anomaly_score, 4, 5) THEN "high"          \* >= 0.8
    ELSE IF ScoreGE(anomaly_score, 1, 2) THEN "medium"   \* >= 0.5
    ELSE "low"

------------------------------------------------------------------------------
(* findings *)

\* str(value) inside an f-string
ValueStr(v) ==
    CASE v.t = "num" -> ToString(v.n)
      [] v.t = "str" -> v.s
      [] v.t = "none" -> "None"
      [] OTHER -> "[]"

\* the dict detect_anomalies appends for an anomalous feature
AnomalyFinding(feature_name, feature_value, score) ==
    [type |-> "ML Anomaly Detection",
     severity |-> _calculate_severity(score),
     feature |-> feature_name,
     value |-> feature_value,
     anomaly_score |-> score,
     evidence |-> "Anomalous " \o feature_name \o ": " \o ValueStr(feature_value),
     description |-> "Machine learning detected unusual " \o feature_name,
     remediation |-> "Investigate the anomalous behavior for security implications"]

\* what a public operation hands back: its return value, or an exception
Returned(v) == [raised |-> FALSE, value |-> v]
Raises == [raised |-> TRUE, value |-> <<>>]

------------------------------------------------------------------------------
(* detect_timing_attacks *)

\* hashlib.md5(str(input_data).encode()).hexdigest()[:8], for the inputs of the model
Md5Prefix(x) ==
    CASE x = "admin" -> "21232f29"
      [] x = "guest" -> "084e0343"
      [] x = "1" -> "c4ca4238"
      [] x = "None" -> "6adf97f8"

InputHash(sample) == Md5Prefix(ValueStr(sample[1]))

RECURSIVE GroupIds(_, _)
\* the keys of timing_groups in insertion order
GroupIds(timing_data, seen) ==
    IF timing_data = <<>> THEN seen
    ELSE LET h == InputHash(Head(timing_data)) IN
         GroupIds(Tail(timing_data),
                  IF \E i \in 1..Len(seen) : seen[i] = h THEN seen ELSE Append(seen, h))

\* timing_groups[group_id]
GroupTimes(timing_data, group_id) ==
    LET keep == SelectSeq(timing_data, LAMBDA smp : InputHash(smp) = group_id)
    IN [i \in 1..Len(keep) |-> keep[i][2]]

\* the test made with stdev_time >= mean_time * 0.5
HighVariance_AtLeast(times) ==
    LET n == Len(times)
        sum == SumSeq(times)
    IN IF sum < 0 THEN TRUE
       ELSE 4 * n * VarNum(times) >= sum * sum * (n - 1)

\* stdev_time > mean_time * 0.5, for a group of at least two numbers:
\* stdev^2 = VarNum / (n * (n - 1)) and mean = sum / n
HighVariance(times) ==
    LET n == Len(times)
        sum == SumSeq(times)
    IN IF sum < 0 THEN TRUE
       ELSE 4 * n * VarNum(times) > sum * sum * (n - 1)

RECURSIVE ISqrtIn(_, _, _)
\* the largest r in lo..hi with r * r <= k
ISqrtIn(k, lo, hi) ==
    IF lo >= hi THEN lo
    ELSE LET mid == (lo + hi + 1) \div 2 IN
         IF mid * mid <= k THEN ISqrtIn(k, mid, hi) ELSE ISqrtIn(k, lo, mid - 1)

ISqrt(k) == ISqrtIn(k, 0, IF k < 46340 THEN k ELSE 46340)

\* f'{x:.3f}' of x = m / 1000
Fmt3(m) ==
    LET a == IF m < 0 THEN -m ELSE m
        frac == a % 1000
    IN (IF m < 0 THEN "-" ELSE "") \o ToString(a \div 1000) \o "."
       \o (IF frac < 10 THEN "00" ELSE IF frac < 100 THEN "0" ELSE "") \o ToString(frac)

\* 1000 * mean, to the nearest integer
MeanMilli(times) == (2000 * SumSeq(times) + Len(times)) \div (2 * Len(times))

\* 1000 * stdev, to the nearest integer
StdevMilli(times) ==
    LET n == Len(times)
    IN (ISqrt((4000000 * VarNum(times)) \div (n * (n - 1))) + 1) \div 2

\* the dict detect_timing_attacks appends for a flagged group
TimingFinding(times) ==
    [type |-> "ML Anomaly - Timing Attack",
     severity |-> "medium",
     evidence |-> "Response time variance: " \o Fmt3(StdevMilli(times))
                  \o "s (mean: " \o Fmt3(MeanMilli(times)) \o "s)",
     description |-> "Significant response time variance detected",
     remediation |-> "Implement constant-time operations for sensitive comparisons",
     cwe |-> "CWE-208: Observable Timing Discrepancy"]

RECURSIVE CheckGroups(_, _, _)
\* for group_id, times in timing_groups.items(): statistics.mean raises TypeError
\* on a latency that is no number, and nothing catches it
CheckGroups(timing_data, ids, acc) ==
    IF ids = <<>> THEN Returned(acc)
    ELSE LET times == GroupTimes(timing_data, Head(ids)) IN
         IF Len(times) > 1
         THEN IF ~AllNumeric(times) THEN Raises
              ELSE IF HighVariance(times)
              THEN CheckGroups(timing_data, Tail(ids), Append(acc, TimingFinding(times)))
              ELSE CheckGroups(timing_data, Tail(ids), acc)
         ELSE CheckGroups(timing_data, Tail(ids), acc)

detect_timing_attacks_result(timing_data) ==
    IF Len(timing_data) < 2 THEN Returned(<<>>)
    ELSE CheckGroups(timing_data, GroupIds(timing_data, <<>>), <<>>)

------------------------------------------------------------------------------
(* the engine: construction and the public operations *)

\* config.get('ml_config', {}).get('min_samples', 10)
DefaultMinSamples == 10
\* config.get('ml_config', {}).get('anomaly_threshold', 0.7), in hundredths
DefaultAnomalyThreshold == 70

\* configurations: {}, {'ml_config': {'min_samples': 2}} and
\* {'ml_config': {'min_samples': 2, 'anomaly_threshold': 0.9}}
NoKey == -1
Configs ==
    {[min_samples |-> NoKey, anomaly_threshold |-> NoKey],
     [min_samples |-> 2, anomaly_threshold |-> NoKey],
     [min_samples |-> 2, anomaly_threshold |-> 90]}

Resp(rt, body, sc, h, rc) ==
    [isdict |-> TRUE, response_time |-> rt, content |-> body, status_code |-> sc,
     headers |-> h, redirect_count |-> rc]

\* a response that is None
NotADict ==
    [isdict |-> FALSE, response_time |-> Absent, content |-> NoBody,
     status_code |-> Absent, headers |-> HAbsent, redirect_count |-> Absent]

HtmlHeaders == HMap(<<[k |-> "Content-Type", v |-> Str("text/html")]>>)
JsonHeaders == HMap(<<[k |-> "Content-Type", v |-> Str("application/json")],
                      [k |-> "Server", v |-> Str("nginx")]>>)
LowerHeaders == HMap(<<[k |-> "content-type", v |-> Str("text/html")]>>)

\* the responses the model trains and probes with
Responses ==
    {Resp(Num(0), Text(<<"o", "k">>), Num(200), HtmlHeaders, Num(0)),
     Resp(Num(1), NoBody, Num(200), HtmlHeaders, Absent),
     Resp(Num(3), Text(<<"F", "a", "t", "a", "l", " ", "e", "r", "r", "o", "r">>),
          Num(500), JsonHeaders, Str("many")),
     Resp(Num(0), NoBody, NoneV, LowerHeaders, ListV),
     Resp(Num(7), NoneBody, Absent, HList(<<"Server">>), Absent),
     Resp(Absent, NoBody, Num(200), HNone, Absent),
     Resp(Absent, NoBody, Absent, HAbsent, Absent),
     NotADict}

\* the (input, response_time) samples the model times with
TimingSamples ==
    {<<Str("admin"), Num(1)>>, <<Str("admin"), Num(3)>>,
     <<Str("guest"), Num(1)>>, <<Str("admin"), NoneV>>}

SeqsUpTo(S, n) == UNION {[1..k -> S] : k \in 0..n}

\* self._extract_features(response) for each response of the model: the
\* FeatureSet, or that the call raised
Extracted ==
    [r \in Responses |->
        IF ExtractRaises(r) THEN [raised |-> TRUE, features |-> <<>>]
        ELSE [raised |-> FALSE, features |-> _extract_features(r)]]

(* train_baseline *)

\* the append replaced by an assignment: the sequence is reset to the new value
AppendFeature_Overwrite(bd, f) ==
    [k \in DOMAIN bd \cup {f.name} |-> IF k = f.name THEN <<f.value>> ELSE bd[k]]

\* the append skipped for a value the sequence already holds
AppendFeature_Dedup(bd, f) ==
    IF f.name \in DOMAIN bd
    THEN IF \E i \in 1..Len(bd[f.name]) : bd[f.name][i] = f.value
         THEN bd
         ELSE [bd EXCEPT ![f.name] = Append(@, f.value)]
    ELSE [k \in DOMAIN bd \cup {f.name} |-> IF k = f.name THEN <<f.value>> ELSE bd[k]]

\* self.baseline_data[feature_name].append(feature_value) on a defaultdict(list)
AppendFeature(bd, f) ==
    IF f.name \in DOMAIN bd
    THEN [bd EXCEPT ![f.name] = Append(@, f.value)]
    ELSE [k \in DOMAIN bd \cup {f.name} |-> IF k = f.name THEN <<f.value>> ELSE bd[k]]

RECURSIVE StoreFeatures(_, _)
\* for feature_name, feature_value in features.items(): ...append(...)
StoreFeatures(bd, features) ==
    IF features = <<>> THEN bd
    ELSE StoreFeatures(AppendFeature(bd, Head(features)), Tail(features))

RECURSIVE TrainLoop(_, _)
\* for response in responses: the loop stops where _extract_features raises;
\* what the earlier responses appended stays
TrainLoop(bd, responses) ==
    IF responses = <<>> THEN [raised |-> FALSE, bd |-> bd]
    ELSE IF Extracted[Head(responses)].raised THEN [raised |-> TRUE, bd |-> bd]
    ELSE TrainLoop(StoreFeatures(bd, Extracted[Head(responses)].features), Tail(responses))

------------------------------------------------------------------------------
(* detect_anomalies *)

RECURSIVE CheckFeatures_FirstOnly(_, _, _, _)
\* the loop of detect_anomalies returning at its first finding
CheckFeatures_FirstOnly(ms, bd, features, acc) ==
    IF features = <<>> THEN Returned(acc)
    ELSE LET f == Head(features) IN
         IF f.name \notin DOMAIN bd
         THEN CheckFeatures_FirstOnly(ms, bd, Tail(features), acc)
         ELSE LET v == _is_anomalous(ms, f.value, bd[f.name]) IN
              IF v.raised THEN Raises
              ELSE IF v.is_anomalous
              THEN Returned(Append(acc, AnomalyFinding(f.name, f.value, v.score)))
              ELSE CheckFeatures_FirstOnly(ms, bd, Tail(features), acc)

RECURSIVE CheckFeatures(_, _, _, _)
\* for feature_name, feature_value in features.items(): the findings appended
\* so far are acc; an exception out of _is_anomalous ends the call
CheckFeatures(ms, bd, features, acc) ==
    IF features = <<>> THEN Returned(acc)
    ELSE LET f == Head(features) IN
         IF f.name \notin DOMAIN bd
         THEN CheckFeatures(ms, bd, Tail(features), acc)
         ELSE LET v == _is_anomalous(ms, f.value, bd[f.name]) IN
              IF v.raised THEN Raises
              ELSE IF v.is_anomalous
              THEN CheckFeatures(ms, bd, Tail(features),
                                 Append(acc, AnomalyFinding(f.name, f.value, v.score)))
              ELSE CheckFeatures(ms, bd, Tail(features), acc)

\* detect_anomalies without its test for an empty baseline
detect_anomalies_result_NoEmptyTest(ms, bd, response) ==
    IF Extracted[response].raised THEN Raises
    ELSE CheckFeatures(ms, bd, Extracted[response].features, <<>>)

detect_anomalies_result(ms, bd, response) ==
    IF Cardinality(DOMAIN bd) = 0 THEN Returned(<<>>)   \* len(self.baseline_data) == 0
    ELSE IF Extracted[response].raised THEN Raises
    ELSE CheckFeatures(ms, bd, Extracted[response].features, <<>>)

\* self.baseline_data[feature_name] on a defaultdict(list): reading a missing
\* key stores an empty list under it
GetItem(bd, k) ==
    IF k \in DOMAIN bd THEN bd
    ELSE [j \in DOMAIN bd \cup {k} |-> IF j = k THEN <<>> ELSE bd[j]]

RECURSIVE BaselineAfterCheck_NoMembershipTest(_, _, _)
\* the loop of detect_anomalies reading self.baseline_data[feature_name]
\* without testing first that the feature is in the baseline
BaselineAfterCheck_NoMembershipTest(ms, bd, features) ==
    IF features = <<>> THEN bd
    ELSE LET f == Head(features)
             read == GetItem(bd, f.name) IN
         IF _is_anomalous(ms, f.value, read[f.name]).raised THEN read
         ELSE BaselineAfterCheck_NoMembershipTest(ms, read, Tail(features))

RECURSIVE BaselineAfterCheck(_, _, _)
\* self.baseline_data as the loop of detect_anomalies leaves it: the only
\* access is the read self.baseline_data[feature_name], made when
\* feature_name in self.baseline_data; the loop ends where _is_anomalous raises
BaselineAfterCheck(ms, bd, features) ==
    IF features = <<>> THEN bd
    ELSE LET f == Head(features) IN
         IF f.name \notin DOMAIN bd
         THEN BaselineAfterCheck(ms, bd, Tail(features))
         ELSE LET read == GetItem(bd, f.name) IN
              IF _is_anomalous(ms, f.value, read[f.name]).raised THEN read
              ELSE BaselineAfterCheck(ms, read, Tail(features))

\* self.baseline_data when detect_anomalies returns or raises
detect_anomalies_baseline(ms, bd, response) ==
    IF Cardinality(DOMAIN bd) = 0 THEN bd
    ELSE IF Extracted[response].raised THEN bd
    ELSE BaselineAfterCheck(ms, bd, Extracted[response].features)

------------------------------------------------------------------------------
(* analyze_response_patterns *)

\* the loop body raises TypeError on a response that is None, on a status_code
\* that is unhashable or does not compare with 400, and on a response_time
\* that does not add to a number
AnalyzeRaises(response) ==
    \/ ~response.isdict
    \/ response.status_code.t \notin {"absent", "num"}
    \/ response.response_time.t \notin {"absent", "num"}

\* the sum of field[i] over the responses i
Total(field) == SumOver(field, DOMAIN field)

\* the patterns dict; an average total / len(responses) is kept as [num, den]
\* and the status codes as a set
Patterns(n, codes, total_time, total_size, error_count) ==
    [total_responses |-> n,
     unique_status_codes |-> codes,
     avg_response_time |-> [num |-> total_time, den |-> n],
     avg_response_size |-> [num |-> total_size, den |-> n],
     error_rate |-> [num |-> 100 * error_count, den |-> n],
     anomaly_clusters |-> <<>>]

analyze_response_patterns_result(responses) ==
    IF responses = <<>>                               \* if not responses
    THEN Returned([total_responses |-> 0, unique_status_codes |-> {},
                   avg_response_time |-> [num |-> 0, den |-> 1],
                   avg_response_size |-> [num |-> 0, den |-> 1],
                   error_rate |-> [num |-> 0, den |-> 1],
                   anomaly_clusters |-> <<>>])
    ELSE IF \E i \in 1..Len(responses) : AnalyzeRaises(responses[i]) THEN Raises
    ELSE Returned(Patterns(
            Len(responses),
            {responses[i].status_code.n :
                i \in {j \in 1..Len(responses) : responses[j].status_code.t = "num"}},
            Total([i \in 1..Len(responses) |->
                     IF responses[i].response_time.t = "num"
                     THEN responses[i].response_time.n ELSE 0]),
            Total([i \in 1..Len(responses) |->
                     IF responses[i].content.t # "absent"
                     THEN Len(PyStr(responses[i].content)) ELSE 0]),
            Total([i \in 1..Len(responses) |->
                     IF responses[i].status_code.t = "num" /\ responses[i].status_code.n >= 400
                     THEN 1 ELSE 0])))

------------------------------------------------------------------------------
(* cluster_vulnerabilities *)

\* a vulnerability: a dict, with a 'type' or without, told apart by its
\* evidence; or a value that is no dict (None)
Vuln(ty, ev) == [isdict |-> TRUE, type |-> ty, evidence |-> ev]
NotAVuln == [isdict |-> FALSE, type |-> Absent, evidence |-> ""]

\* vuln.get('type', 'Unknown')
VulnType(vuln) == IF vuln.type.t = "absent" THEN Str("Unknown") ELSE vuln.type

\* clusters is the defaultdict(list) as the sequence of its [key, items] in
\* insertion order

\* the append replaced by an assignment of a one-element list
AppendToCluster_Overwrite(clusters, vuln_type, vuln) ==
    IF \E i \in 1..Len(clusters) : clusters[i].key = vuln_type
    THEN [i \in 1..Len(clusters) |->
            IF clusters[i].key = vuln_type
            THEN [key |-> vuln_type, items |-> <<vuln>>]
            ELSE clusters[i]]
    ELSE Append(clusters, [key |-> vuln_type, items |-> <<vuln>>])

\* clusters[vuln_type].append(vuln)
AppendToCluster(clusters, vuln_type, vuln) ==
    IF \E i \in 1..Len(clusters) : clusters[i].key = vuln_type
    THEN [i \in 1..Len(clusters) |->
            IF clusters[i].key = vuln_type
            THEN [key |-> vuln_type, items |-> Append(clusters[i].items, vuln)]
            ELSE clusters[i]]
    ELSE Append(clusters, [key |-> vuln_type, items |-> <<vuln>>])

RECURSIVE ClusterLoop(_, _)
\* for vuln in vulnerabilities: .get on a value that is no dict raises
\* AttributeError, an unhashable type raises TypeError
ClusterLoop(vulnerabilities, clusters) ==
    IF vulnerabilities = <<>> THEN Returned(clusters)
    ELSE LET vuln == Head(vulnerabilities) IN
         IF ~vuln.isdict THEN Raises
         ELSE IF ~Hashable(VulnType(vuln)) THEN Raises
         ELSE ClusterLoop(Tail(vulnerabilities),
                          AppendToCluster(clusters, VulnType(vuln), vuln))

cluster_vulnerabilities_result(vulnerabilities) == ClusterLoop(vulnerabilities, <<>>)

\* the vulnerabilities the model clusters
Vulnerabilities ==
    {Vuln(Str("A"), "e1"), Vuln(Str("B"), "e2"), Vuln(Str("A"), "e3"),
     Vuln(Absent, "e4"), Vuln(Str("Unknown"), "e5"), Vuln(NoneV, "e6"),
     Vuln(ListV, "e7"), NotAVuln}

------------------------------------------------------------------------------
(* predict_attack_vectors *)

tech_predictions == <<
    [platform |-> <<"p","h","p">>,
     attack_vectors |-> <<"SQL Injection", "LFI", "RFI", "Command Injection">>],
    [platform |-> <<"j","a","v","a">>,
     attack_vectors |-> <<"XXE", "Deserialization", "SSRF">>],
    [platform |-> <<"n","o","d","e">>,
     attack_vectors |-> <<"Prototype Pollution", "NoSQL Injection", "SSRF">>],
    [platform |-> <<"w","o","r","d","p","r","e","s","s">>,
     attack_vectors |-> <<"Plugin Vulnerabilities", "Theme Vulnerabilities", "XML-RPC">>],
    [platform |-> <<"d","j","a","n","g","o">>,
     attack_vectors |-> <<"SSTI", "SQL Injection", "CSRF">>]
>>

\* 'confidence': 0.7, in hundredths
Confidence == 70

RECURSIVE JoinChars(_)
\* the string of a sequence of characters
JoinChars(cs) == IF cs = <<>> THEN "" ELSE Head(cs) \o JoinChars(Tail(cs))

\* the dict appended for one vector of a matching platform
Prediction(vector, tech) ==
    [attack_vector |-> vector,
     technology |-> tech,
     confidence |-> Confidence,
     reason |-> "Common vulnerability in " \o JoinChars(tech.chars) \o " applications"]

\* the platform test made on the technology as given
PlatformMatches_CaseSensitive(tech, platform) == Contains(tech.chars, platform)

\* if platform in tech_lower
PlatformMatches(tech, platform) == Contains(Lower(tech.chars), platform)

RECURSIVE PlatformLoop(_, _, _)
\* for platform, attack_vectors in tech_predictions.items(), from entry k on
PlatformLoop(tech, k, predictions) ==
    IF k > Len(tech_predictions) THEN predictions
    ELSE LET vectors == tech_predictions[k].attack_vectors IN
         PlatformLoop(tech, k + 1,
             IF PlatformMatches(tech, tech_predictions[k].platform)
             THEN predictions \o [i \in 1..Len(vectors) |-> Prediction(vectors[i], tech)]
             ELSE predictions)

RECURSIVE TechLoop(_, _)
\* for tech in technologies: tech.lower() raises AttributeError on None
TechLoop(technologies, predictions) ==
    IF technologies = <<>> THEN Returned(predictions)
    ELSE IF Head(technologies).t # "str" THEN Raises
    ELSE TechLoop(Tail(technologies), PlatformLoop(Head(technologies), 1, predictions))

\* scan_data: a dict with a 'technologies' list or without, or None
ScanData(technologies) == [isdict |-> TRUE, has |-> TRUE, technologies |-> technologies]
NoTechnologies == [isdict |-> TRUE, has |-> FALSE, technologies |-> <<>>]
NotAScan == [isdict |-> FALSE, has |-> FALSE, technologies |-> <<>>]

predict_attack_vectors_result(scan_data) ==
    IF ~scan_data.isdict THEN Raises                  \* None.get
    ELSE TechLoop(IF scan_data.has THEN scan_data.technologies ELSE <<>>, <<>>)

\* the technology strings the model predicts from (None among them)
Technologies ==
    {Text(<<"P","H","P">>), Text(<<"p","h","p","7">>), Text(<<"J","a","v","a">>),
     Text(<<"N","o","d","e",".","j","s">>), Text(<<"W","o","r","d","P","r","e","s","s">>),
     Text(<<"D","j","a","n","g","o">>), Text(<<"n","g","i","n","x">>),
     Text(<<"j","a","v","a","-","n","o","d","e">>), NoneBody}

------------------------------------------------------------------------------
(* the state machine *)

Init ==
    \E cfg \in Configs :
        /\ min_samples = IF cfg.min_samples = NoKey THEN DefaultMinSamples
                         ELSE cfg.min_samples
        /\ anomaly_threshold = IF cfg.anomaly_threshold = NoKey
                               THEN DefaultAnomalyThreshold ELSE cfg.anomaly_threshold
        /\ baseline_data = [k \in {} |-> <<>>]
        /\ op = "idle"
        /\ arg = <<>>
        /\ result = Returned(<<>>)

train_baseline(responses) ==
    LET r == TrainLoop(baseline_data, responses) IN
    /\ op = "idle"
    /\ \A k \in DOMAIN r.bd : Len(r.bd[k]) <= MaxBaselineLen
    /\ baseline_data' = r.bd
    /\ op' = "train_baseline"
    /\ arg' = responses
    /\ result' = IF r.raised THEN Raises ELSE Returned(<<>>)
    /\ UNCHANGED <<min_samples, anomaly_threshold>>

detect_anomalies(response) ==
    /\ op = "idle"
    /\ op' = "detect_anomalies"
    /\ arg' = response
    /\ result' = detect_anomalies_result(min_samples, baseline_data, response)
    /\ baseline_data' = detect_anomalies_baseline(min_samples, baseline_data, response)
    /\ UNCHANGED <<min_samples, anomaly_threshold>>

detect_timing_attacks(timing_data) ==
    /\ op = "idle"
    /\ op' = "detect_timing_attacks"
    /\ arg' = timing_data
    /\ result' = detect_timing_attacks_result(timing_data)
    /\ UNCHANGED <<min_samples, anomaly_threshold, baseline_data>>

analyze_response_patterns(responses) ==
    /\ op = "idle"
    /\ op' = "analyze_response_patterns"
    /\ arg' = responses
    /\ result' = analyze_response_patterns_result(responses)
    /\ UNCHANGED <<min_samples, anomaly_threshold, baseline_data>>

cluster_vulnerabilities(vulnerabilities) ==
    /\ op = "idle"
    /\ op' = "cluster_vulnerabilities"
    /\ arg' = vulnerabilities
    /\ result' = cluster_vulnerabilities_result(vulnerabilities)
    /\ UNCHANGED <<min_samples, anomaly_threshold, baseline_data>>

predict_attack_vectors(scan_data) ==
    /\ op = "idle"
    /\ op' = "predict_attack_vectors"
    /\ arg' = scan_data
    /\ result' = predict_attack_vectors_result(scan_data)
    /\ UNCHANGED <<min_samples, anomaly_threshold, baseline_data>>

\* the arguments the engine as a whole is exercised with
AnalyzeSamples == {<<>>} \cup {<<r>> : r \in Responses}
ClusterSamples ==
    {<<>>,
     <<Vuln(Str("A"), "e1"), Vuln(Str("B"), "e2"), Vuln(Str("A"), "e3")>>,
     <<Vuln(Absent, "e4")>>,
     <<NotAVuln>>}
ScanSamples ==
    {ScanData(<<>>),
     ScanData(<<Text(<<"P","H","P">>), Text(<<"n","g","i","n","x">>)>>),
     NoTechnologies,
     NotAScan}

\* the call is over: the caller has its result and the engine awaits the next call
Return ==
    /\ op # "idle"
    /\ op' = "idle"
    /\ arg' = <<>>
    /\ result' = Returned(<<>>)
    /\ UNCHANGED <<min_samples, anomaly_threshold, baseline_data>>

\* a call begins only when the engine is idle: the calls do not overlap
Next ==
    \/ /\ op = "idle"
       /\ \E responses \in SeqsUpTo(Responses, MaxBatch) : train_baseline(responses)
    \/ /\ op = "idle"
       /\ \E response \in Responses : detect_anomalies(response)
    \/ /\ op = "idle"
       /\ \E timing_data \in SeqsUpTo(TimingSamples, MaxTiming) :
              detect_timing_attacks(timing_data)
    \/ /\ op = "idle"
       /\ \E responses \in AnalyzeSamples : analyze_response_patterns(responses)
    \/ /\ op = "idle"
       /\ \E vulnerabilities \in ClusterSamples : cluster_vulnerabilities(vulnerabilities)
    \/ /\ op = "idle"
       /\ \E scan_data \in ScanSamples : predict_attack_vectors(scan_data)
    \/ Return

Spec == Init /\ [][Next]_vars

------------------------------------------------------------------------------
(* _is_anomalous on its own: a baseline sequence of one feature, a probe value *)

\* values a pass-through feature is trained with
ScoreValues == {Num(0), Num(1), Num(2), Str("a"), NoneV, ListV}

\* probe values
ProbeValues ==
    {Num(1), Num(4), Num(5), Num(6), Num(9), Num(12),
     Str("a"), Str("b"), Str("c"), NoneV}

\* a sequence longer than the default min_samples
LongLen == DefaultMinSamples + 1

\* the sequences of x and y, up to LongLen long, with at most MaxRare y
TwoValued(x, y) ==
    {q \in UNION {[1..k -> {x, y}] : k \in 1..LongLen} :
        Cardinality({i \in 1..Len(q) : q[i] = y}) <= MaxRare}

ScoreBaselines ==
    UNION {[1..k -> ScoreValues] : k \in 1..MaxShortLen}
    \cup TwoValued(Str("a"), Str("b"))
    \cup TwoValued(Num(0), Num(1))

\* min_samples as configured: 1, 3, or the default
ScoreMinSamples == {1, 3, DefaultMinSamples}

\* the sequence under scrutiny is the one stored for response_time
Scored == baseline_data["response_time"]

InitScore ==
    /\ min_samples \in ScoreMinSamples
    /\ anomaly_threshold = DefaultAnomalyThreshold
    /\ \E q \in ScoreBaselines : baseline_data = [k \in {"response_time"} |-> q]
    /\ op = "idle"
    /\ arg = <<>>
    /\ result = Returned(<<>>)

ScoreValue(value) ==
    /\ op = "idle"
    /\ op' = "_is_anomalous"
    /\ arg' = value
    /\ result' = _is_anomalous(min_samples, value, Scored)
    /\ UNCHANGED <<min_samples, anomaly_threshold, baseline_data>>

NextScore == \E value \in ProbeValues : ScoreValue(value)

SpecScore == InitScore /\ [][NextScore]_vars

------------------------------------------------------------------------------
(* _calculate_severity on its own: a score p / q in [0, 1] *)

InitSeverity ==
    /\ min_samples = DefaultMinSamples
    /\ anomaly_threshold = DefaultAnomalyThreshold
    /\ baseline_data = [k \in {} |-> <<>>]
    /\ op = "idle"
    /\ arg = <<>>
    /\ result = Returned(<<>>)

Classify(p, q) ==
    /\ op = "idle"
    /\ op' = "_calculate_severity"
    /\ arg' = <<p, q>>
    /\ result' = Returned(_calculate_severity(ScoreRatio(p, q)))
    /\ UNCHANGED <<min_samples, anomaly_threshold, baseline_data>>

NextSeverity == \E q \in 1..MaxDen : \E p \in 0..q : Classify(p, q)

SpecSeverity == InitSeverity /\ [][NextSeverity]_vars

------------------------------------------------------------------------------
(* the operations that read no engine state, each on its own on a default engine *)

\* timing samples: two inputs, an int and a str that print alike, a latency
\* that is None
TimingProbes ==
    {<<Str("admin"), Num(1)>>, <<Str("admin"), Num(3)>>,
     <<Str("guest"), Num(1)>>, <<Str("guest"), Num(2)>>,
     <<Num(1), Num(0)>>, <<Str("1"), Num(4)>>, <<Str("admin"), NoneV>>}

NextTiming ==
    \/ /\ op = "idle"
       /\ \E timing_data \in SeqsUpTo(TimingProbes, MaxTimingLen) :
              detect_timing_attacks(timing_data)
    \/ Return

SpecTiming == InitSeverity /\ [][NextTiming]_vars

NextCluster ==
    \/ /\ op = "idle"
       /\ \E vulnerabilities \in SeqsUpTo(Vulnerabilities, MaxVulns) :
              cluster_vulnerabilities(vulnerabilities)
    \/ Return

SpecCluster == InitSeverity /\ [][NextCluster]_vars

ScanInputs ==
    {ScanData(technologies) : technologies \in SeqsUpTo(Technologies, MaxTech)}
    \cup {NoTechnologies, NotAScan}

NextPredict ==
    \/ /\ op = "idle"
       /\ \E scan_data \in ScanInputs : predict_attack_vectors(scan_data)
    \/ Return

SpecPredict == InitSeverity /\ [][NextPredict]_vars

\* the responses _extract_features is called with on its own: every
\* combination of a field missing, present, and present with an odd value
ExtractInputs ==
    {Resp(rt, body, sc, h, rc) :
        rt \in {Absent, Num(0), NoneV},
        body \in {NoBody, Text(<<>>), Text(<<"o", "k">>), NoneBody},
        sc \in {Absent, Num(200)},
        h \in {HAbsent, HMap(<<>>), HtmlHeaders, LowerHeaders, HNone,
               HList(<<"Content-Type">>), HList(<<"Server">>)},
        rc \in {Absent, Num(0), Str("many")}}
    \cup {NotADict}

Extract(response) ==
    /\ op = "idle"
    /\ op' = "_extract_features"
    /\ arg' = response
    /\ result' = IF ExtractRaises(response) THEN Raises
                 ELSE Returned(_extract_features(response))
    /\ UNCHANGED <<min_samples, anomaly_threshold, baseline_data>>

NextExtract ==
    \/ /\ op = "idle"
       /\ \E response \in ExtractInputs : Extract(response)
    \/ Return

SpecExtract == InitSeverity /\ [][NextExtract]_vars

------------------------------------------------------------------------------
(* one train_baseline call and one detect_anomalies call on the same engine,  *)
(* in two threads: a step is what one thread does between two switches.      *)
(* Here op is the position of each call, arg the locals of each call, and    *)
(* result what detect_anomalies has gathered so far.                         *)

\* min_samples as configured for this engine: {'ml_config': {'min_samples': 2}}
RaceMinSamples == 2

\* the responses the two calls are given: those without a text body
RaceResponses == {r \in Responses : r.content.t # "str"}

\* the responses train_baseline is given
RaceBatches == SeqsUpTo(RaceResponses, MaxRaceBatch)

\* what an earlier train_baseline call, long returned, was given
RaceTrained == {<<>>} \cup [1..RaceMinSamples -> RaceResponses]

\* statistics.mean(baseline) of the values the list holds now: their sum and
\* number, less the newest value
MeanSnapshot_Stale(baseline) ==
    [sum |-> SumSeq(SubSeq(baseline, 1, Len(baseline) - 1)), n |-> Len(baseline) - 1]

\* statistics.mean(baseline) of the values the list holds now: their sum and
\* number
MeanSnapshot(baseline) == [sum |-> SumSeq(baseline), n |-> Len(baseline)]

\* lines 156-168 for a mean taken earlier and the list as it is now:
\* z_score^2 = (value - sum/n)^2 / stdev^2, stdev^2 = VarNum / (len * (len - 1))
NumericVerdictOf(value, mean, baseline) ==
    IF StdevIsZero(baseline) THEN NotAnomalous
    ELSE LET d == mean.n * value.n - mean.sum
             zn == d * d * Len(baseline) * (Len(baseline) - 1)
             zd == mean.n * mean.n * VarNum(baseline)
         IN Verdict(zn > 9 * zd,
                    IF zn >= 100 * zd THEN ScoreOne ELSE SqrtOf(zn, 100 * zd))

\* lines 181-188 for a count taken earlier and the length of the list now
CategoricalVerdictOf(count, total_count) ==
    IF 10 * count < total_count
    THEN Verdict(TRUE, ScoreRatio(total_count - count, total_count))
    ELSE Verdict(FALSE, ScoreZero)

NoFeature == Feat("", Absent)

InitRace ==
    /\ min_samples = RaceMinSamples
    /\ anomaly_threshold = DefaultAnomalyThreshold
    /\ \E trained \in RaceTrained :
          /\ ~TrainLoop([k \in {} |-> <<>>], trained).raised
          /\ baseline_data = TrainLoop([k \in {} |-> <<>>], trained).bd
    /\ op = [train_baseline |-> "idle", detect_anomalies |-> "idle"]
    /\ arg = [responses |-> <<>>,        \* train_baseline: responses still to come
              features |-> <<>>,         \* train_baseline: features still to append
              appended |-> 0,            \* train_baseline: features of this response appended
              response |-> NotADict,     \* detect_anomalies: its argument
              probing |-> <<>>,          \* detect_anomalies: features still to check
              feature |-> NoFeature,     \* _is_anomalous: the feature being scored
              mean |-> [sum |-> 0, n |-> 0],   \* _detect_numeric_anomaly: mean
              count |-> 0]               \* _detect_categorical_anomaly: value_counts[value]
    /\ result = [raised |-> FALSE,
                 value |-> <<>>,         \* anomalies
                 scored |-> <<>>,        \* per score: the list lengths its statistics saw
                 serial |-> FALSE]       \* training had returned when detection began

\* the thread of train_baseline is inside the call
Training == op.train_baseline = "loop"

\* line 34: the call begins
TrainBegin(responses) ==
    /\ op.train_baseline = "idle"
    /\ op' = [op EXCEPT !.train_baseline = "loop"]
    /\ arg' = [arg EXCEPT !.responses = responses, !.features = <<>>, !.appended = 0]
    /\ UNCHANGED <<min_samples, anomaly_threshold, baseline_data, result>>

\* line 36: features = self._extract_features(response) for the next response
TrainExtract ==
    /\ Training
    /\ arg.features = <<>>
    /\ arg.responses # <<>>
    /\ IF Extracted[Head(arg.responses)].raised
       THEN /\ op' = [op EXCEPT !.train_baseline = "raised"]
            /\ arg' = [arg EXCEPT !.responses = <<>>, !.appended = 0]
       ELSE /\ op' = op
            /\ arg' = [arg EXCEPT !.responses = Tail(@),
                                  !.features = Extracted[Head(arg.responses)].features,
                                  !.appended = 0]
    /\ UNCHANGED <<min_samples, anomaly_threshold, baseline_data, result>>

\* line 40: one append
TrainAppend ==
    /\ Training
    /\ arg.features # <<>>
    /\ baseline_data' = AppendFeature(baseline_data, Head(arg.features))
    /\ arg' = [arg EXCEPT !.features = Tail(@), !.appended = @ + 1]
    /\ UNCHANGED <<min_samples, anomaly_threshold, op, result>>

\* line 42: the call returns
TrainEnd ==
    /\ Training
    /\ arg.features = <<>>
    /\ arg.responses = <<>>
    /\ op' = [op EXCEPT !.train_baseline = "done"]
    /\ arg' = [arg EXCEPT !.appended = 0]
    /\ UNCHANGED <<min_samples, anomaly_threshold, baseline_data, result>>

\* lines 54-62: the call begins, tests for an empty baseline, extracts
DetectBegin(response) ==
    /\ op.detect_anomalies = "idle"
    /\ op' = [op EXCEPT !.detect_anomalies =
                IF Cardinality(DOMAIN baseline_data) = 0 THEN "done"
                ELSE IF Extracted[response].raised THEN "raised"
                ELSE "loop"]
    /\ arg' = [arg EXCEPT !.response = response,
                          !.probing = IF Cardinality(DOMAIN baseline_data) = 0
                                         \/ Extracted[response].raised
                                      THEN <<>> ELSE Extracted[response].features]
    /\ result' = [result EXCEPT
                    !.raised = Cardinality(DOMAIN baseline_data) # 0
                               /\ Extracted[response].raised,
                    !.serial = op.train_baseline \in {"done", "raised"}]
    /\ UNCHANGED <<min_samples, anomaly_threshold, baseline_data>>

\* the loop moves on to the feature after this one
NextFeature == [arg EXCEPT !.probing = Tail(@), !.feature = NoFeature]

\* lines 65-66, 137-148: the next feature; its list is looked up, its length
\* tested and the scorer chosen
DetectFeature ==
    /\ op.detect_anomalies = "loop"
    /\ arg.probing # <<>>
    /\ LET f == Head(arg.probing) IN
       IF f.name \notin DOMAIN baseline_data
          \/ Len(baseline_data[f.name]) < min_samples
          \/ ~(IsNumeric(f.value) \/ IsString(f.value))
       THEN /\ arg' = NextFeature
            /\ op' = op
       ELSE /\ arg' = [arg EXCEPT !.feature = f]
            /\ op' = [op EXCEPT !.detect_anomalies =
                        IF IsNumeric(f.value) THEN "mean" ELSE "count"]
    /\ UNCHANGED <<min_samples, anomaly_threshold, baseline_data, result>>

\* the list the scorer holds a reference to, as it is now
ScoredList == baseline_data[arg.feature.name]

\* line 155: mean = statistics.mean(baseline); a TypeError is caught (line 170)
DetectMean ==
    /\ op.detect_anomalies = "mean"
    /\ IF AllNumeric(ScoredList)
       THEN /\ arg' = [arg EXCEPT !.mean = MeanSnapshot(ScoredList)]
            /\ op' = [op EXCEPT !.detect_anomalies = "stdev"]
       ELSE /\ arg' = NextFeature
            /\ op' = [op EXCEPT !.detect_anomalies = "loop"]
    /\ UNCHANGED <<min_samples, anomaly_threshold, baseline_data, result>>

\* the finding appended when the verdict is anomalous (lines 73-83)
WithFinding(anomalies, f, v) ==
    IF v.is_anomalous THEN Append(anomalies, AnomalyFinding(f.name, f.value, v.score))
    ELSE anomalies

\* lines 156-168 and 73-83: stdev, the z-score, the finding
DetectStdev ==
    /\ op.detect_anomalies = "stdev"
    /\ IF AllNumeric(ScoredList)
       THEN LET v == NumericVerdictOf(arg.feature.value, arg.mean, ScoredList) IN
            result' = [result EXCEPT
                !.value = WithFinding(@, arg.feature, v),
                !.scored = Append(@, [feature |-> arg.feature,
                                      mean_len |-> arg.mean.n,
                                      stdev_len |-> Len(ScoredList),
                                      verdict |-> v])]
       ELSE result' = result
    /\ arg' = NextFeature
    /\ op' = [op EXCEPT !.detect_anomalies = "loop"]
    /\ UNCHANGED <<min_samples, anomaly_threshold, baseline_data>>

\* lines 177-179: the counting loop; an unhashable value raises
DetectCount ==
    /\ op.detect_anomalies = "count"
    /\ IF \E i \in 1..Len(ScoredList) : ~Hashable(ScoredList[i])
       THEN /\ op' = [op EXCEPT !.detect_anomalies = "raised"]
            /\ arg' = [arg EXCEPT !.probing = <<>>, !.feature = NoFeature]
            /\ result' = [result EXCEPT !.raised = TRUE, !.value = <<>>]
       ELSE /\ op' = [op EXCEPT !.detect_anomalies = "total"]
            /\ arg' = [arg EXCEPT !.count = CountOf(arg.feature.value, ScoredList)]
            /\ result' = result
    /\ UNCHANGED <<min_samples, anomaly_threshold, baseline_data>>

\* lines 181-188 and 73-83: total_count, the frequency, the finding
DetectTotal ==
    /\ op.detect_anomalies = "total"
    /\ LET v == CategoricalVerdictOf(arg.count, Len(ScoredList)) IN
       result' = [result EXCEPT
            !.value = WithFinding(@, arg.feature, v),
            !.scored = Append(@, [feature |-> arg.feature,
                                  mean_len |-> Len(ScoredList),
                                  stdev_len |-> Len(ScoredList),
                                  verdict |-> v])]
    /\ arg' = [NextFeature EXCEPT !.count = 0]
    /\ op' = [op EXCEPT !.detect_anomalies = "loop"]
    /\ UNCHANGED <<min_samples, anomaly_threshold, baseline_data>>

\* line 85: the call returns
DetectEnd ==
    /\ op.detect_anomalies = "loop"
    /\ arg.probing = <<>>
    /\ op' = [op EXCEPT !.detect_anomalies = "done"]
    /\ UNCHANGED <<min_samples, anomaly_threshold, baseline_data, arg, result>>

NextRace ==
    \/ \E responses \in RaceBatches : TrainBegin(responses)
    \/ TrainExtract
    \/ TrainAppend
    \/ TrainEnd
    \/ \E response \in RaceResponses : DetectBegin(response)
    \/ DetectFeature
    \/ DetectMean
    \/ DetectStdev
    \/ DetectCount
    \/ DetectTotal
    \/ DetectEnd

SpecRace == InitRace /\ [][NextRace]_vars

------------------------------------------------------------------------------
(* training followed by detection: one engine, and the observations that the
   train_baseline calls made so far were given; arg.supplied is that history,
   arg.probes holds the response of the detect_anomalies call in progress *)

\* observations given to train_baseline over the life of one engine, at most
MaxSupplied == 3

InitSupply ==
    \E cfg \in Configs :
        /\ min_samples = IF cfg.min_samples = NoKey THEN DefaultMinSamples
                         ELSE cfg.min_samples
        /\ anomaly_threshold = IF cfg.anomaly_threshold = NoKey
                               THEN DefaultAnomalyThreshold ELSE cfg.anomaly_threshold
        /\ baseline_data = [k \in {} |-> <<>>]
        /\ op = "idle"
        /\ arg = [supplied |-> <<>>, probes |-> <<>>]
        /\ result = Returned(<<>>)

\* train_baseline(responses), one more call on the same engine
TrainMore(responses) ==
    LET r == TrainLoop(baseline_data, responses) IN
    /\ op = "idle"
    /\ Len(arg.supplied) + Len(responses) <= MaxSupplied
    /\ baseline_data' = r.bd
    /\ op' = "train_baseline"
    /\ arg' = [supplied |-> arg.supplied \o responses, probes |-> <<>>]
    /\ result' = IF r.raised THEN Raises ELSE Returned(<<>>)
    /\ UNCHANGED <<min_samples, anomaly_threshold>>

\* detect_anomalies(response) on the engine as trained so far
Probe(response) ==
    /\ op = "idle"
    /\ op' = "detect_anomalies"
    /\ arg' = [arg EXCEPT !.probes = <<response>>]
    /\ result' = detect_anomalies_result(min_samples, baseline_data, response)
    /\ baseline_data' = detect_anomalies_baseline(min_samples, baseline_data, response)
    /\ UNCHANGED <<min_samples, anomaly_threshold>>

\* the call is over; the history of the engine stays
SupplyReturn ==
    /\ op # "idle"
    /\ op' = "idle"
    /\ arg' = [arg EXCEPT !.probes = <<>>]
    /\ result' = Returned(<<>>)
    /\ UNCHANGED <<min_samples, anomaly_threshold, baseline_data>>

NextSupply ==
    \/ /\ op = "idle"
       /\ \E responses \in SeqsUpTo(Responses, MaxBatch) : TrainMore(responses)
    \/ /\ op = "idle"
       /\ \E response \in Responses : Probe(response)
    \/ SupplyReturn

SpecSupply == InitSupply /\ [][NextSupply]_vars

------------------------------------------------------------------------------
(* Properties of the engine, checked under Spec *)

Called(name) == op = name

\* C1: detect_anomalies on an engine whose baseline is empty returns an empty
\* finding list for any response, malformed ones included, and never raises.
C1_EmptyBaselineReturnsEmpty ==
    (Called("detect_anomalies") /\ DOMAIN baseline_data = {})
        => (~result.raised /\ result.value = <<>>)

\* a malformed response (None) has been probed on the untrained engine
C1_Witness ==
    /\ Called("detect_anomalies")
    /\ DOMAIN baseline_data = {}
    /\ ~arg.isdict
    /\ result = Returned(<<>>)

\* C2: detect_anomalies and detect_timing_attacks never propagate an exception
\* to the caller, whatever the shape of the observation.
C2_NeverRaises ==
    (Called("detect_anomalies") \/ Called("detect_timing_attacks")) => ~result.raised

\* the features of the probed response that have a baseline sequence and are
\* scored anomalous against it, in extraction order
AnomalousFeatures ==
    SelectSeq(Extracted[arg].features,
              LAMBDA f : /\ f.name \in DOMAIN baseline_data
                         /\ _is_anomalous(min_samples, f.value,
                                        baseline_data[f.name]).is_anomalous)

\* C9: on a trained engine, what detect_anomalies returns is exactly one Finding
\* for each feature that is in the response's FeatureSet, has a baseline
\* sequence and is scored anomalous against it, and no other; the Finding names
\* the feature and its value, and its severity is the classifier's label for
\* the feature's score.
C9_OneFindingPerAnomalousFeature ==
    (Called("detect_anomalies") /\ DOMAIN baseline_data # {} /\ ~result.raised)
        => /\ Len(result.value) = Len(AnomalousFeatures)
           /\ \A i \in 1..Len(result.value) :
                LET f == AnomalousFeatures[i]
                    v == _is_anomalous(min_samples, f.value, baseline_data[f.name])
                IN /\ result.value[i].feature = f.name
                   /\ result.value[i].value = f.value
                   /\ result.value[i].anomaly_score = v.score
                   /\ result.value[i].severity = _calculate_severity(v.score)

\* a finding is returned while one feature of the response has no baseline
\* sequence and another is scored and found normal
C9_Witness ==
    /\ Called("detect_anomalies")
    /\ ~result.raised
    /\ Len(result.value) >= 1
    /\ \E i \in 1..Len(Extracted[arg].features) :
            Extracted[arg].features[i].name \notin DOMAIN baseline_data
    /\ \E i \in 1..Len(Extracted[arg].features) :
            LET f == Extracted[arg].features[i] IN
            /\ f.name \in DOMAIN baseline_data
            /\ Len(baseline_data[f.name]) >= min_samples
            /\ \A j \in 1..Len(result.value) : result.value[j].feature # f.name

RequiredFields == {"type", "severity", "evidence", "description", "remediation"}

\* C10: every Finding returned by detect_anomalies or detect_timing_attacks
\* carries type, severity, evidence, description and remediation, and its
\* severity is low, medium or high.
C10_FindingFields ==
    ((Called("detect_anomalies") \/ Called("detect_timing_attacks")) /\ ~result.raised)
        => \A i \in 1..Len(result.value) :
              /\ RequiredFields \subseteq DOMAIN result.value[i]
              /\ result.value[i].severity \in {"low", "medium", "high"}

\* detect_anomalies has returned findings of two severities, one of them for a
\* score of 1.0
C10_Witness ==
    /\ Called("detect_anomalies")
    /\ ~result.raised
    /\ \E i, j \in 1..Len(result.value) :
          /\ result.value[i].severity = "low"
          /\ result.value[j].severity = "high"
          /\ result.value[j].anomaly_score = ScoreOne

------------------------------------------------------------------------------
(* Properties of _is_anomalous, checked under SpecScore *)

RECURSIVE SqDeviations(_, _, _)
\* the sum over x in xs of (n * x - total)^2, which is n^2 times the sum of the
\* squared deviations of xs from its mean when n = Len(xs) and total = sum(xs)
SqDeviations(xs, n, total) ==
    IF xs = <<>> THEN 0
    ELSE (n * Head(xs).n - total) * (n * Head(xs).n - total)
         + SqDeviations(Tail(xs), n, total)

\* n * (probe - mean of the scored sequence)
ProbeOffset == Len(Scored) * arg.n - SumSeq(Scored)

\* z^2 = ZNum / ZDen for z = |probe - mean| / stdev, stdev^2 being the sum of
\* the squared deviations over n - 1
ZNum == ProbeOffset * ProbeOffset * (Len(Scored) - 1)
ZDen == SqDeviations(Scored, Len(Scored), SumSeq(Scored))

\* a numeric probe has been scored against a sequence of numbers
NumericCase == Called("_is_anomalous") /\ IsNumeric(arg) /\ AllNumeric(Scored)

\* C3: for a numeric probe and a numeric baseline of at least min_samples
\* entries with nonzero standard deviation, is_anomalous = (z > 3) and
\* score = min(z / 10, 1.0) for z = |value - mean| / stdev; a probe equal to the
\* mean is not anomalous, and neither is z = 3.
C3_NumericZScore ==
    (NumericCase /\ Len(Scored) >= min_samples /\ ZDen # 0)
        => /\ ~result.raised
           /\ result.is_anomalous = (ZNum > 9 * ZDen)
           /\ (ZNum >= 100 * ZDen => result.score.sqn = result.score.sqd)
           /\ (ZNum < 100 * ZDen
                 => result.score.sqn * 100 * ZDen = ZNum * result.score.sqd)
           /\ (ProbeOffset = 0 => ~result.is_anomalous /\ result.score.sqn = 0)
           /\ (ZNum = 9 * ZDen => ~result.is_anomalous)

\* a probe exactly three standard deviations from the mean has been scored
C3_Witness ==
    /\ NumericCase
    /\ Len(Scored) >= min_samples
    /\ ZDen # 0
    /\ ZNum = 9 * ZDen
    /\ ~result.is_anomalous
    /\ ScoreEQ(result.score, 3, 10)

RECURSIVE Occurrences(_, _)
\* how many entries of xs equal x
Occurrences(x, xs) ==
    IF xs = <<>> THEN 0
    ELSE (IF Head(xs) = x THEN 1 ELSE 0) + Occurrences(x, Tail(xs))

\* a string probe has been scored against a sequence of hashable values
StringCase ==
    /\ Called("_is_anomalous")
    /\ IsString(arg)
    /\ \A i \in 1..Len(Scored) : Scored[i].t # "list"

\* C4: for a string probe and a baseline of at least min_samples entries, with
\* frequency = (entries equal to the value) / (baseline length): anomalous iff
\* frequency < 0.10, score = 1 - frequency when anomalous and 0 otherwise;
\* frequency 0.1 exactly is not anomalous, a never-seen value is anomalous with
\* score 1.0.
C4_CategoricalFrequency ==
    (StringCase /\ Len(Scored) >= min_samples)
        => LET c == Occurrences(arg, Scored)
               n == Len(Scored)
           IN /\ ~result.raised
              /\ result.is_anomalous = (10 * c < n)
              /\ (result.is_anomalous
                    => result.score.sqn * n * n = (n - c) * (n - c) * result.score.sqd)
              /\ (~result.is_anomalous => result.score.sqn = 0)
              /\ (10 * c = n => ~result.is_anomalous)
              /\ (c = 0 => result.is_anomalous /\ result.score = ScoreOne)

\* a value seen in exactly one tenth of the baseline has been scored
C4_Witness ==
    /\ StringCase
    /\ Len(Scored) >= min_samples
    /\ Occurrences(arg, Scored) >= 1
    /\ 10 * Occurrences(arg, Scored) = Len(Scored)
    /\ result = NotAnomalous

\* C5: a baseline sequence shorter than min_samples (default 10) scores
\* (False, 0.0) whatever the probe and its type; with exactly min_samples
\* entries the numeric and categorical rules apply.
C5_MinSamplesGate ==
    Called("_is_anomalous")
        => /\ (Len(Scored) < min_samples => result = NotAnomalous)
           /\ (Len(Scored) = min_samples /\ NumericCase /\ ZDen # 0 /\ ZNum > 9 * ZDen
                 => result.is_anomalous)
           /\ (Len(Scored) = min_samples /\ StringCase /\ Occurrences(arg, Scored) = 0
                 => result.is_anomalous /\ result.score = ScoreOne)

\* under the default min_samples, a never-seen string has been scored against
\* one entry too few
C5_Witness ==
    /\ Called("_is_anomalous")
    /\ min_samples = DefaultMinSamples
    /\ Len(Scored) = min_samples - 1
    /\ StringCase
    /\ Occurrences(arg, Scored) = 0
    /\ result = NotAnomalous

\* all entries of the scored sequence are the same number
ConstantBaseline ==
    /\ AllNumeric(Scored)
    /\ \A i, j \in 1..Len(Scored) : Scored[i].n = Scored[j].n

\* C6: a numeric baseline whose values are all identical scores every numeric
\* probe not anomalous with score 0, however far the probe is from the value.
C6_ZeroVariance ==
    (NumericCase /\ ConstantBaseline) => result = NotAnomalous

\* a probe far from the repeated value has been scored against enough entries
C6_Witness ==
    /\ NumericCase
    /\ ConstantBaseline
    /\ Len(Scored) >= min_samples
    /\ Len(Scored) >= 2
    /\ arg.n # Scored[1].n
    /\ result = NotAnomalous

\* the probe is at mean + 4 * stdev of a sequence of two or more numbers
AtMeanPlus4Stdev ==
    /\ NumericCase
    /\ Len(Scored) >= 2
    /\ ProbeOffset >= 0
    /\ ZNum = 16 * ZDen

\* the score is 0.4, is reported as an anomaly, and is classified low
FlaggedLowAt04 ==
    /\ ~result.raised
    /\ result.is_anomalous
    /\ ScoreEQ(result.score, 2, 5)
    /\ _calculate_severity(result.score) = "low"

\* C7 as stated: for all numeric baselines, a probe at mean + 4 * stdev
\* triggers an anomaly with score 0.4, classified low.
C7_AllBaselines == AtMeanPlus4Stdev => FlaggedLowAt04

\* C7: for all numeric baselines of at least min_samples entries with nonzero
\* standard deviation, a probe at mean + 4 * stdev triggers an anomaly with
\* score 0.4, classified low.
C7_EnoughSamplesNonzeroStdev ==
    (AtMeanPlus4Stdev /\ Len(Scored) >= min_samples /\ ZDen # 0) => FlaggedLowAt04

\* such a probe has been scored
C7_Witness ==
    /\ AtMeanPlus4Stdev
    /\ Len(Scored) >= min_samples
    /\ ZDen # 0
    /\ FlaggedLowAt04

------------------------------------------------------------------------------
(* Properties of _calculate_severity, checked under SpecSeverity *)

\* C8: the severity of a score is high when score >= 0.8, medium when
\* 0.5 <= score < 0.8, low when score < 0.5, the boundaries 0.8 and 0.5 going
\* to the higher label; no other label is returned.
C8_SeverityMapping ==
    Called("_calculate_severity")
        => LET p == arg[1]
               q == arg[2]
           IN /\ (10 * p >= 8 * q => result.value = "high")
              /\ (10 * p >= 5 * q /\ 10 * p < 8 * q => result.value = "medium")
              /\ (10 * p < 5 * q => result.value = "low")
              /\ result.value \in {"high", "medium", "low"}

\* the score 0.5 has been classified
C8_Witness ==
    /\ Called("_calculate_severity")
    /\ 2 * arg[1] = arg[2]
    /\ result.value = "medium"

------------------------------------------------------------------------------
(* Properties of the findings and of the baseline, checked under Spec *)

ScoredFields == {"feature", "value", "anomaly_score"}

\* C11: every Finding returned by detect_anomalies and by detect_timing_attacks
\* carries the triggering feature name, its observed value, and an anomaly
\* score that lies in [0, 1].
C11_FindingCarriesFeatureValueScore ==
    ((Called("detect_anomalies") \/ Called("detect_timing_attacks")) /\ ~result.raised)
        => \A i \in 1..Len(result.value) :
              /\ ScoredFields \subseteq DOMAIN result.value[i]
              /\ result.value[i].anomaly_score.sqn >= 0
              /\ result.value[i].anomaly_score.sqn <= result.value[i].anomaly_score.sqd

\* C12: in every state reachable by train_baseline calls, the values stored
\* under one feature name share one type, all numeric or all string.
C12_SameTypePerFeature ==
    \A k \in DOMAIN baseline_data :
        \/ \A i \in 1..Len(baseline_data[k]) : IsNumeric(baseline_data[k][i])
        \/ \A i \in 1..Len(baseline_data[k]) : IsString(baseline_data[k][i])

\* sequence q is a prefix of sequence r
IsPrefix(q, r) == Len(q) <= Len(r) /\ SubSeq(r, 1, Len(q)) = q

\* C13: across any sequence of public operations the set of baseline feature
\* names never shrinks, and each feature's sequence before a step is a prefix
\* of its sequence after it: nothing is removed, reordered, overwritten or
\* reset.
C13_BaselineMonotone ==
    [][\A k \in DOMAIN baseline_data :
          /\ k \in DOMAIN baseline_data'
          /\ IsPrefix(baseline_data[k], baseline_data'[k])]_vars

\* a one-response training call has extended a sequence that already held a
\* different value
C13_Witness ==
    /\ Called("train_baseline")
    /\ Len(arg) = 1
    /\ \E k \in DOMAIN baseline_data :
          /\ Len(baseline_data[k]) = 2
          /\ baseline_data[k][1] # baseline_data[k][2]

FeatureNames ==
    {"response_time", "response_size", "status_code", "header_count",
     "content_type", "content_entropy", "error_pattern", "redirect_count"}

\* the values the FeatureSet of one response holds for feature k: none or one
ValuesOf(response, k) ==
    LET named == SelectSeq(Extracted[response].features, LAMBDA f : f.name = k)
    IN [i \in 1..Len(named) |-> named[i].value]

RECURSIVE FeatureValues(_, _)
\* the values of feature k in the responses, in order, up to the first
\* response whose extraction raises
FeatureValues(responses, k) ==
    IF responses = <<>> THEN <<>>
    ELSE IF Extracted[Head(responses)].raised THEN <<>>
    ELSE ValuesOf(Head(responses), k) \o FeatureValues(Tail(responses), k)

\* the sequence stored for k, empty when k has none
Stored(bd, k) == IF k \in DOMAIN bd THEN bd[k] ELSE <<>>

\* C14: train_baseline appends, for each observation in order, each value of
\* its FeatureSet to the end of that feature's sequence, creating the sequence
\* on first occurrence and never deduplicating; training A and then B leaves
\* the baseline that training A followed by B leaves.
C14_TrainAppends ==
    [][op' = "train_baseline"
        => /\ DOMAIN baseline_data' =
                DOMAIN baseline_data
                \cup {k \in FeatureNames : FeatureValues(arg', k) # <<>>}
           /\ \A k \in DOMAIN baseline_data' :
                baseline_data'[k] = Stored(baseline_data, k) \o FeatureValues(arg', k)
           /\ \A i \in 0..Len(arg') :
                LET first == TrainLoop(baseline_data, SubSeq(arg', 1, i))
                IN ~first.raised
                     => TrainLoop(first.bd, SubSeq(arg', i + 1, Len(arg'))).bd
                            = baseline_data']_vars

\* one response has been trained a second time: every value of its FeatureSet
\* is stored twice
C14_Witness ==
    /\ Called("train_baseline")
    /\ ~result.raised
    /\ Len(arg) = 1
    /\ DOMAIN baseline_data = {k \in FeatureNames : ValuesOf(arg[1], k) # <<>>}
    /\ Cardinality(DOMAIN baseline_data) >= 2
    /\ \A k \in DOMAIN baseline_data :
          baseline_data[k] = ValuesOf(arg[1], k) \o ValuesOf(arg[1], k)

\* the squared z-score of feature f against its baseline sequence, as the
\* fraction FNum / FDen
FNum(f) ==
    LET xs == baseline_data[f.name]
        d == Len(xs) * f.value.n - SumSeq(xs)
    IN d * d * (Len(xs) - 1)
FDen(f) ==
    LET xs == baseline_data[f.name]
    IN SqDeviations(xs, Len(xs), SumSeq(xs))

\* feature f is flagged by the fixed rules: z > 3 for a number against
\* numbers, frequency < 0.10 for a string, given min_samples entries
FlaggedByFixedRules(f) ==
    /\ f.name \in DOMAIN baseline_data
    /\ Len(baseline_data[f.name]) >= min_samples
    /\ \/ /\ IsNumeric(f.value)
          /\ AllNumeric(baseline_data[f.name])
          /\ FDen(f) # 0
          /\ FNum(f) > 9 * FDen(f)
       \/ /\ IsString(f.value)
          /\ 10 * Occurrences(f.value, baseline_data[f.name]) < Len(baseline_data[f.name])

\* score sc is the one the fixed rules give feature f: min(z / 10, 1), or
\* 1 - frequency
ScoreByFixedRules(f, sc) ==
    LET n == Len(baseline_data[f.name])
        c == Occurrences(f.value, baseline_data[f.name])
    IN IF IsNumeric(f.value)
       THEN IF FNum(f) >= 100 * FDen(f) THEN sc.sqn = sc.sqd
            ELSE sc.sqn * 100 * FDen(f) = FNum(f) * sc.sqd
       ELSE sc.sqn * n * n = (n - c) * (n - c) * sc.sqd

\* the label of score sc: high from 0.8, medium from 0.5, low below
LabelOf(sc) ==
    IF 25 * sc.sqn >= 16 * sc.sqd THEN "high"
    ELSE IF 4 * sc.sqn >= sc.sqd THEN "medium"
    ELSE "low"

\* C20: the configured anomaly_threshold has no influence on any result:
\* whatever its value, the findings detect_anomalies returns are those of the
\* features flagged by the fixed z-score threshold 3 and the fixed frequency
\* threshold 0.10, with the scores and severities these rules give, so that
\* engines differing only in anomaly_threshold return identical findings.
C20_ThresholdHasNoInfluence ==
    (Called("detect_anomalies") /\ DOMAIN baseline_data # {} /\ ~result.raised)
        => LET flagged == SelectSeq(Extracted[arg].features, FlaggedByFixedRules)
           IN /\ Len(result.value) = Len(flagged)
              /\ \A i \in 1..Len(result.value) :
                    /\ result.value[i].feature = flagged[i].name
                    /\ result.value[i].value = flagged[i].value
                    /\ ScoreByFixedRules(flagged[i], result.value[i].anomaly_score)
                    /\ result.value[i].severity = LabelOf(result.value[i].anomaly_score)

\* an engine configured with a threshold other than the default has returned
\* a finding whose score is below both thresholds
C20_Witness ==
    /\ Called("detect_anomalies")
    /\ ~result.raised
    /\ anomaly_threshold # DefaultAnomalyThreshold
    /\ \E i \in 1..Len(result.value) :
          LET sc == result.value[i].anomaly_score IN
          /\ sc.sqn * 100 * 100 < anomaly_threshold * anomaly_threshold * sc.sqd
          /\ sc.sqn * 100 * 100
                < DefaultAnomalyThreshold * DefaultAnomalyThreshold * sc.sqd

------------------------------------------------------------------------------
(* Properties of _extract_features, checked under SpecExtract *)

\* the FeatureSet returned holds feature k
Has(k) == \E i \in 1..Len(result.value) : result.value[i].name = k

\* the value the FeatureSet returned holds for feature k
ValueIn(k) == result.value[CHOOSE i \in 1..Len(result.value) : result.value[i].name = k].value

\* each feature is in the FeatureSet returned iff its source field is present,
\* pass-through values are the fields' own, and no feature is there twice
FeaturesFollowFields ==
    /\ Has("response_time") = (arg.response_time.t # "absent")
    /\ Has("status_code") = (arg.status_code.t # "absent")
    /\ Has("redirect_count") = (arg.redirect_count.t # "absent")
    /\ Has("response_size") = (arg.content.t # "absent")
    /\ Has("content_entropy") = (arg.content.t # "absent")
    /\ Has("error_pattern") = (arg.content.t # "absent")
    /\ Has("header_count") = (arg.headers.t # "absent")
    /\ Has("content_type") =
         (/\ arg.headers.t # "absent"
          /\ \E i \in 1..Len(arg.headers.items) :
                 HKey(arg.headers, i) = "Content-Type")
    /\ (Has("response_time") => ValueIn("response_time") = arg.response_time)
    /\ (Has("status_code") => ValueIn("status_code") = arg.status_code)
    /\ (Has("redirect_count") => ValueIn("redirect_count") = arg.redirect_count)
    /\ \A i, j \in 1..Len(result.value) :
          result.value[i].name = result.value[j].name => i = j

\* C15: extraction omits every feature whose source field is absent and never
\* substitutes a default: response_time, status_code and redirect_count are
\* present iff the same-named field is, with the field's value; response_size,
\* content_entropy and error_pattern iff the body is; header_count iff the
\* headers are; content_type iff the headers are present and hold the key
\* 'Content-Type' in exactly that case.  A dict whose headers are a mapping or
\* missing never makes it raise.
C15_FeaturePresence ==
    Called("_extract_features")
        => /\ (arg.isdict /\ arg.headers.t \in {"absent", "map"}) => ~result.raised
           /\ ~result.raised => FeaturesFollowFields

\* a response with only a body and lower-case content-type headers has been
\* extracted: no response_time, no content_type
C15_Witness ==
    /\ Called("_extract_features")
    /\ ~result.raised
    /\ arg.response_time.t = "absent"
    /\ arg.content.t = "str"
    /\ arg.headers = LowerHeaders
    /\ Has("header_count")
    /\ ~Has("content_type")
    /\ ~Has("response_time")
    /\ Has("response_size")

------------------------------------------------------------------------------
(* Properties of detect_timing_attacks, checked under SpecTiming *)

\* the grouping keys of the samples
GroupKeys == {InputHash(arg[i]) : i \in 1..Len(arg)}

\* the latencies of the samples that share grouping key k
LatenciesOf(k) ==
    LET members == SelectSeq(arg, LAMBDA smp : InputHash(smp) = k)
    IN [i \in 1..Len(members) |-> members[i][2]]

\* the group has at least 2 samples and its sample standard deviation is more
\* than half its mean: with n latencies of sum t, stdev^2 is the sum of the
\* squared deviations over n - 1, that is SqDeviations / (n^2 * (n - 1))
VariesOverHalfMean(xs) ==
    /\ Len(xs) >= 2
    /\ \/ SumSeq(xs) < 0
       \/ 4 * SqDeviations(xs, Len(xs), SumSeq(xs))
             > SumSeq(xs) * SumSeq(xs) * (Len(xs) - 1)

\* the findings returned are those of the varying groups
FindingsOfGroups ==
    /\ (Len(arg) < 2 => result.value = <<>>)
    /\ Len(result.value) =
         Cardinality({k \in GroupKeys : VariesOverHalfMean(LatenciesOf(k))})
    /\ \A i \in 1..Len(result.value) :
          /\ result.value[i].severity = "medium"
          /\ result.value[i].cwe = "CWE-208: Observable Timing Discrepancy"

\* C16: detect_timing_attacks returns an empty list for fewer than 2 samples,
\* and otherwise one Finding for each group of samples sharing a grouping key
\* that has at least 2 samples and a standard deviation above 0.5 times its
\* mean, and none for any other group; every Finding has severity medium and
\* the CWE-208 reference.  Latencies that are numbers never make it raise.
C16_OneFindingPerVaryingGroup ==
    Called("detect_timing_attacks")
        => /\ (\A i \in 1..Len(arg) : IsNumeric(arg[i][2])) => ~result.raised
           /\ ~result.raised => FindingsOfGroups


\* four samples in two groups of two, one with identical latencies: one finding
C16_Witness ==
    /\ Called("detect_timing_attacks")
    /\ ~result.raised
    /\ Len(arg) = 4
    /\ Cardinality(GroupKeys) = 2
    /\ \A k \in GroupKeys : Len(LatenciesOf(k)) = 2
    /\ \E k \in GroupKeys : LatenciesOf(k)[1] = LatenciesOf(k)[2]
    /\ Len(result.value) = 1

------------------------------------------------------------------------------
(* Properties of cluster_vulnerabilities, checked under SpecCluster *)

\* the 'type' of a finding, 'Unknown' for a finding that has none
TypeLabel(v) == IF v.type.t = "absent" THEN Str("Unknown") ELSE v.type

\* the input findings of type ty, in input order
OfType(ty) == SelectSeq(arg, LAMBDA v : TypeLabel(v) = ty)

\* the result partitions the input by type
PartitionsByType ==
    /\ {result.value[i].key : i \in 1..Len(result.value)}
          = {TypeLabel(arg[j]) : j \in 1..Len(arg)}
    /\ \A i, j \in 1..Len(result.value) :
          result.value[i].key = result.value[j].key => i = j
    /\ \A i \in 1..Len(result.value) :
          /\ result.value[i].items = OfType(result.value[i].key)
          /\ result.value[i].items # <<>>

\* C17: the keys of the result of cluster_vulnerabilities are exactly the
\* distinct 'type' values of the input findings ('Unknown' for a finding without
\* one), every input finding appears exactly once, in the list under its type,
\* no list is empty, and each list keeps the input's relative order.  Findings
\* that are dicts with a hashable type never make it raise.
C17_ClustersPartitionInput ==
    Called("cluster_vulnerabilities")
        => /\ (\A j \in 1..Len(arg) : arg[j].isdict /\ Hashable(arg[j].type))
                 => ~result.raised
           /\ ~result.raised => PartitionsByType

\* findings of types A, B, A have been clustered: A holds the first and the
\* third, in that order, and B the second
C17_Witness ==
    /\ Called("cluster_vulnerabilities")
    /\ Len(arg) = 3
    /\ arg[1].type = Str("A") /\ arg[2].type = Str("B") /\ arg[3].type = Str("A")
    /\ arg[1] # arg[3]
    /\ result = Returned(<<[key |-> Str("A"), items |-> <<arg[1], arg[3]>>],
                           [key |-> Str("B"), items |-> <<arg[2]>>]>>)

------------------------------------------------------------------------------
(* Properties of predict_attack_vectors, checked under SpecPredict *)

\* scan_data.get('technologies', [])
TechsGiven == IF arg.has THEN arg.technologies ELSE <<>>

\* table platform k is a case-insensitive substring of technology i
IsSubstringOf(k, i) ==
    LET platform == tech_predictions[k].platform
        tech == TechsGiven[i].chars
    IN \E at \in 0..(Len(tech) - Len(platform)) :
          \A j \in 1..Len(platform) : LowerChar(tech[at + j]) = platform[j]

\* the (technology, matching platform) pairs
MatchingPairs ==
    {pr \in (1..Len(TechsGiven)) \X (1..Len(tech_predictions)) : IsSubstringOf(pr[2], pr[1])}

RECURSIVE ExpectedFrom(_, _)
\* <<vector, technology>> for each vector of each platform from k on that
\* matches technology i, then the same for the technologies after i
ExpectedFrom(i, k) ==
    IF i > Len(TechsGiven) THEN <<>>
    ELSE IF k > Len(tech_predictions) THEN ExpectedFrom(i + 1, 1)
    ELSE (IF IsSubstringOf(k, i)
          THEN [j \in 1..Len(tech_predictions[k].attack_vectors) |->
                   <<tech_predictions[k].attack_vectors[j], TechsGiven[i]>>]
          ELSE <<>>)
         \o ExpectedFrom(i, k + 1)

\* one prediction per vector of every matching pair, in input order
PredictionsOfPairs ==
    /\ Len(result.value) =
          SumOver([pr \in MatchingPairs |-> Len(tech_predictions[pr[2]].attack_vectors)],
                  MatchingPairs)
    /\ LET expected == ExpectedFrom(1, 1) IN
       /\ Len(result.value) = Len(expected)
       /\ \A n \in 1..Len(result.value) :
             /\ result.value[n].attack_vector = expected[n][1]
             /\ result.value[n].technology = expected[n][2]
             /\ 10 * result.value[n].confidence = 7 * 100

\* C18: predict_attack_vectors returns, for each technology in input order and
\* each table platform that is a case-insensitive substring of it, one
\* prediction per vector of that platform's list, with no deduplication; every
\* prediction has confidence 0.7 and the technology string as given; a
\* technology matching no platform contributes nothing, so the result length is
\* the sum of the vector-list lengths over the matching pairs.  A dict whose
\* technologies are strings never makes it raise.
C18_PredictionsPerMatch ==
    Called("predict_attack_vectors")
        => /\ (arg.isdict /\ \A i \in 1..Len(TechsGiven) : TechsGiven[i].t = "str")
                 => ~result.raised
           /\ ~result.raised => PredictionsOfPairs

\* a technology matching two platforms, one matching none and one matching in
\* upper case have been predicted from: SSRF is predicted twice for the first
C18_Witness ==
    /\ Called("predict_attack_vectors")
    /\ ~result.raised
    /\ Len(TechsGiven) = 3
    /\ Cardinality({k \in 1..Len(tech_predictions) : IsSubstringOf(k, 1)}) = 2
    /\ \A k \in 1..Len(tech_predictions) : ~IsSubstringOf(k, 2)
    /\ TechsGiven[3] = Text(<<"P", "H", "P">>)
    /\ Len(result.value) = 10
    /\ result.value[3].attack_vector = "SSRF"
    /\ result.value[6].attack_vector = "SSRF"
    /\ result.value[10].technology = Text(<<"P", "H", "P">>)

------------------------------------------------------------------------------
(* Properties of the two calls side by side, checked under SpecRace *)

\* score e took its mean and its standard deviation from the whole list the
\* feature has now
FromCompleteList(e) ==
    /\ e.mean_len = e.stdev_len
    /\ e.stdev_len = Len(baseline_data[e.feature.name])
    /\ e.verdict = _is_anomalous(min_samples, e.feature.value,
                                 baseline_data[e.feature.name])

\* C19: when all training has completed before detection begins, every score
\* uses a mean and a standard deviation computed from the same, complete
\* sequence, and the call returns what it returns on that baseline.  (That an
\* inconsistent snapshot is reachable when the calls overlap is C19_Witness.)
C19_SerializedScoresAreConsistent ==
    result.serial
        => /\ \A i \in 1..Len(result.scored) : FromCompleteList(result.scored[i])
           /\ op.detect_anomalies = "done"
                => Returned(result.value)
                     = detect_anomalies_result(min_samples, baseline_data, arg.response)
           /\ op.detect_anomalies = "raised"
                => detect_anomalies_result(min_samples, baseline_data, arg.response).raised

\* a score has been computed from a mean over fewer values than its standard
\* deviation, while train_baseline has appended some features of an
\* observation and not yet the others; its verdict is that of neither list
C19_Witness ==
    /\ Training
    /\ arg.appended >= 1
    /\ arg.features # <<>>
    /\ \E i \in 1..Len(result.scored) :
          LET e == result.scored[i]
              now == baseline_data[e.feature.name]
          IN /\ e.mean_len < e.stdev_len
             /\ e.stdev_len = Len(now)
             /\ e.verdict # _is_anomalous(min_samples, e.feature.value, now)
             /\ e.verdict # _is_anomalous(min_samples, e.feature.value,
                                          SubSeq(now, 1, e.mean_len))

------------------------------------------------------------------------------
(* C21 *)

\* the operations that only read the engine
ReadOnlyCalls ==
    {"detect_anomalies", "detect_timing_attacks", "cluster_vulnerabilities",
     "predict_attack_vectors"}

\* C21: a call of detect_anomalies, of detect_timing_attacks, of
\* cluster_vulnerabilities or of predict_attack_vectors, returning or raising,
\* leaves the baseline as it was: the same feature names, and under each name
\* the same sequence; no value is appended and no empty sequence is created
\* for a feature of the response that the baseline does not have.
C21_DetectionLeavesBaseline ==
    [][op' \in ReadOnlyCalls =>
          /\ DOMAIN baseline_data' = DOMAIN baseline_data
          /\ \A k \in DOMAIN baseline_data : baseline_data'[k] = baseline_data[k]]_vars

\* detect_anomalies has scored a response against a baseline that lacks one of
\* the response's features and has another of them
C21_Witness ==
    /\ Called("detect_anomalies")
    /\ ~result.raised
    /\ arg.isdict
    /\ \E i \in 1..Len(Extracted[arg].features) :
           Extracted[arg].features[i].name \notin DOMAIN baseline_data
    /\ \E i \in 1..Len(Extracted[arg].features) :
           Extracted[arg].features[i].name \in DOMAIN baseline_data

------------------------------------------------------------------------------
(* C22 *)

\* the train_baseline calls so far were given fewer than min_samples observations
Undertrained == Len(arg.supplied) < min_samples

\* some feature's sequence has min_samples entries or more
SomeFeatureTrained ==
    \E k \in DOMAIN baseline_data : Len(baseline_data[k]) >= min_samples

\* C22: after train_baseline calls that supplied fewer than min_samples
\* observations in total, detect_anomalies returns an empty finding list for
\* every response; and detect_anomalies returns a finding only when some
\* single feature's sequence has reached min_samples entries.
C22_UndertrainedReturnsEmpty ==
    Called("detect_anomalies") =>
        /\ Undertrained => result = Returned(<<>>)
        /\ (~result.raised /\ result.value # <<>>) => SomeFeatureTrained

------------------------------------------------------------------------------
(* C23 *)

\* the feature a finding reports
FeatureOf(finding) == [name |-> finding.feature, value |-> finding.value]

\* lo <= z < hi for the z-score of the finding's value against its baseline
\* sequence; strictly above lo when strict
ZWithin(finding, lo, strict, hi) ==
    LET zn == FNum(FeatureOf(finding))
        zd == FDen(FeatureOf(finding))
    IN /\ IF strict THEN zn > lo * lo * zd ELSE zn >= lo * lo * zd
       /\ zn < hi * hi * zd

\* C23: every Finding detect_anomalies returns has anomaly_score > 0.3; a
\* Finding whose value is a string has anomaly_score > 0.9 and severity
\* 'high'; a Finding of severity 'low' has a numeric value with 3 < z < 5 and
\* one of severity 'medium' a numeric value with 5 <= z < 8.
C23_ScoreRanges ==
    (Called("detect_anomalies") /\ ~result.raised) =>
        \A i \in 1..Len(result.value) :
            LET finding == result.value[i] IN
            /\ ScoreGT(finding.anomaly_score, 3, 10)
            /\ finding.severity \in {"low", "medium", "high"}
            /\ IsString(finding.value) =>
                   /\ ScoreGT(finding.anomaly_score, 9, 10)
                   /\ finding.severity = "high"
            /\ finding.severity = "low" =>
                   /\ IsNumeric(finding.value)
                   /\ ZWithin(finding, 3, TRUE, 5)
            /\ finding.severity = "medium" =>
                   /\ IsNumeric(finding.value)
                   /\ ZWithin(finding, 5, FALSE, 8)

\* detect_anomalies has returned a finding for a string and a finding of
\* severity 'low' for a number
C23_Witness ==
    /\ Called("detect_anomalies")
    /\ ~result.raised
    /\ \E i \in 1..Len(result.value) : IsString(result.value[i].value)
    /\ \E i \in 1..Len(result.value) :
           /\ IsNumeric(result.value[i].value)
           /\ result.value[i].severity = "low"

------------------------------------------------------------------------------
(* C24 *)

\* every entry of xs is a string
AllStrings(xs) == \A i \in 1..Len(xs) : IsString(xs[i])

\* C24: scoring follows the type of the probe, not of the baseline: against at
\* least min_samples numeric entries a string probe is anomalous with score
\* 1.0, which is severity 'high'; against at least min_samples string entries
\* a numeric probe is not anomalous, with score 0.
C24_DispatchOnProbeType ==
    (Called("_is_anomalous") /\ Len(Scored) >= min_samples) =>
        /\ (IsString(arg) /\ AllNumeric(Scored)) =>
               /\ result = Verdict(TRUE, ScoreOne)
               /\ _calculate_severity(result.score) = "high"
        /\ (IsNumeric(arg) /\ AllStrings(Scored)) => result = NotAnomalous

\* a string has been scored against the default min_samples numeric entries
\* and reported anomalous
C24_Witness ==
    /\ Called("_is_anomalous")
    /\ min_samples = DefaultMinSamples
    /\ Len(Scored) >= min_samples
    /\ IsString(arg)
    /\ AllNumeric(Scored)
    /\ result.is_anomalous

====
